---- MODULE Spec2Model ----
(***************************************************************************)
(* A model of Joplin_tornados.py: the hourly summarizer, the alert         *)
(* classifier, the two SPC outlook resolvers and the likelihood scorer.    *)
(*                                                                         *)
(* Text is a sequence of one-character strings.  A JSON value is a record  *)
(* [t, s, n]: t is its type ("absent" for a missing key, "null" for None,  *)
(* "str", "int", "float"), s its text, n its number (a float carries its   *)
(* value in tenths).  Scores are fixed-point numbers in hundredths of a    *)
(* point: every term of the score is a multiple of 0.1, so the hundredths  *)
(* are exact and round(score, 1) is computed on them.                      *)
(***************************************************************************)
EXTENDS Integers, Sequences, FiniteSets, TLC

VARIABLES
    \* score_likelihood
    spc_cat, spc_prob_tor, alerts, hourly_summary, score_pc, score_0_100,
    \* summarize_hourly
    periods_24h, hourly_pc, hourly_i, thunder_hours, max_pop, max_gust_mph,
    \* classify_tornado_alerts
    features, alerts_pc, alerts_i, has_watch, has_warning, has_pds,
    \* get_spc_categorical / get_spc_prob_tornado
    feats, spc_pc, spc_cat_ret, spc_prob_ret

scoreVars == <<spc_cat, spc_prob_tor, alerts, hourly_summary, score_pc, score_0_100>>
hourlyVars == <<periods_24h, hourly_pc, hourly_i, thunder_hours, max_pop, max_gust_mph>>
alertVars == <<features, alerts_pc, alerts_i, has_watch, has_warning, has_pds>>
spcVars == <<feats, spc_pc, spc_cat_ret, spc_prob_ret>>
vars == <<scoreVars, hourlyVars, alertVars, spcVars>>

(***************************************************************************)
(* Text                                                                    *)
(***************************************************************************)
Lowers == <<"a","b","c","d","e","f","g","h","i","j","k","l","m",
            "n","o","p","q","r","s","t","u","v","w","x","y","z">>
Uppers == <<"A","B","C","D","E","F","G","H","I","J","K","L","M",
            "N","O","P","Q","R","S","T","U","V","W","X","Y","Z">>
Digits == <<"0","1","2","3","4","5","6","7","8","9">>
\* what the regex class \s and str.strip() take for white space
Whitespace == {" ", "\t", "\n", "\r", "\f"}

IsDigit(c) == \E d \in 1..10 : Digits[d] = c
DigitVal(c) == (CHOOSE d \in 1..10 : Digits[d] = c) - 1

\* str.upper() and str.lower(), character by character
UpperChar(c) == IF \E k \in 1..26 : Lowers[k] = c
                THEN Uppers[CHOOSE k \in 1..26 : Lowers[k] = c] ELSE c
LowerChar(c) == IF \E k \in 1..26 : Uppers[k] = c
                THEN Lowers[CHOOSE k \in 1..26 : Uppers[k] = c] ELSE c
Upper(s) == [k \in 1..Len(s) |-> UpperChar(s[k])]
Lower(s) == [k \in 1..Len(s) |-> LowerChar(s[k])]

\* str.replace(old, ""), for a one-character old
RemoveChar(s, old) == SelectSeq(s, LAMBDA c : c # old)

\* `sub in s`
Contains(s, sub) ==
    \E k \in 0..(Len(s) - Len(sub)) : \A j \in 1..Len(sub) : s[k + j] = sub[j]

IsSpace(c) == c \in Whitespace

\* the end (exclusive) of the longest run of digits (regex \d+) from k on
RECURSIVE DigitRunEnd(_, _)
DigitRunEnd(s, k) ==
    IF k <= Len(s) /\ IsDigit(s[k]) THEN DigitRunEnd(s, k + 1) ELSE k

\* the end (exclusive) of the longest run of white space (regex \s*) from k on
RECURSIVE SpaceRunEnd(_, _)
SpaceRunEnd(s, k) ==
    IF k <= Len(s) /\ IsSpace(s[k]) THEN SpaceRunEnd(s, k + 1) ELSE k

\* int() of a string of digits
RECURSIVE DigitsToInt(_)
DigitsToInt(ds) ==
    IF ds = <<>> THEN 0
    ELSE 10 * DigitsToInt(SubSeq(ds, 1, Len(ds) - 1)) + DigitVal(ds[Len(ds)])

\* str() of a non-negative int
RECURSIVE NatToStr(_)
NatToStr(k) ==
    IF k < 10 THEN <<Digits[k + 1]>> ELSE NatToStr(k \div 10) \o <<Digits[(k % 10) + 1]>>

(***************************************************************************)
(* JSON values                                                             *)
(***************************************************************************)
Absent == [t |-> "absent", s |-> <<>>, n |-> 0]
Null == [t |-> "null", s |-> <<>>, n |-> 0]
StrV(x) == [t |-> "str", s |-> x, n |-> 0]
IntV(k) == [t |-> "int", s |-> <<>>, n |-> k]
FloatV(tenths) == [t |-> "float", s |-> <<>>, n |-> tenths]

\* Python truthiness of a value; a missing key reads as its default
Falsy(v) ==
    \/ v.t \in {"absent", "null"}
    \/ v.t = "str" /\ v.s = <<>>
    \/ v.t \in {"int", "float"} /\ v.n = 0

\* int() of a float: truncation toward zero (the float is in tenths)
Trunc(tenths) == IF tenths >= 0 THEN tenths \div 10 ELSE -((-tenths) \div 10)

Max(a, b) == IF a >= b THEN a ELSE b
Min(a, b) == IF a <= b THEN a ELSE b

(***************************************************************************)
(* Step 5: score_likelihood                                                *)
(***************************************************************************)
NoneCat == "<None>"

ProbWeight == 120
ThunderWeight == 200
ThunderCap == 10
GustThreshold == 35
GustCap == 30
PopWeight == 20
WatchFloor == 7000
WarningFloor == 9000
PdsFloor == 9800
ScoreMin == 0
ScoreMax == 10000
Point == 100

\* CAT_WEIGHTS.get(spc_cat, 0), in points
CatWeight(cat) ==
    CASE cat = NoneCat -> 0
      [] cat = "TSTM" -> 5
      [] cat = "MRGL" -> 15
      [] cat = "SLGT" -> 25
      [] cat = "ENH" -> 40
      [] cat = "MDT" -> 60
      [] cat = "HIGH" -> 80
      [] OTHER -> 0

\* Base from SPC: the weight, plus 1.2 x the percentage when there is one
BaseScore(cat, prob) ==
    Point * CatWeight(cat) + (IF prob # <<>> THEN ProbWeight * prob[1] ELSE 0)

C4_Mutant_GustBonus(max_gust) ==
    IF max_gust > GustThreshold THEN Min(GustThreshold - max_gust, GustCap) ELSE 0

\* the gust bonus, in points
GustBonus(max_gust) ==
    IF max_gust > GustThreshold THEN Min(max_gust - GustThreshold, GustCap) ELSE 0

C3_Mutant_HourlyFlavor(hs) ==
    ThunderWeight * hs.thunder_hours
      + Point * GustBonus(hs.max_gust_mph)
      + PopWeight * hs.max_pop

\* Hourly flavor
HourlyFlavor(hs) ==
    ThunderWeight * Min(hs.thunder_hours, ThunderCap)
      + Point * GustBonus(hs.max_gust_mph)
      + PopWeight * hs.max_pop

C2_Mutant_AlertFloors(score, al) ==
    IF al.has_pds THEN Max(score, PdsFloor)
    ELSE IF al.has_warning THEN Max(score, WatchFloor)
    ELSE IF al.has_watch THEN Max(score, WatchFloor)
    ELSE score

\* Alerts dominate
AlertFloors(score, al) ==
    LET s1 == IF al.has_watch THEN Max(score, WatchFloor) ELSE score
        s2 == IF al.has_warning THEN Max(s1, WarningFloor) ELSE s1
    IN IF al.has_pds THEN Max(s2, PdsFloor) ELSE s2

C1_Mutant_Clip(score) == Min(ScoreMax, score)

\* max(0.0, min(100.0, score))
Clip(score) == Max(ScoreMin, Min(ScoreMax, score))

\* round(score, 1): to the nearest tenth, a tie to the even tenth
Round1(score) ==
    LET q == score \div 10
        r == score % 10
    IN IF r < 5 THEN 10 * q
       ELSE IF r > 5 THEN 10 * (q + 1)
       ELSE IF q % 2 = 0 THEN 10 * q ELSE 10 * (q + 1)

score_likelihood(cat, prob, al, hs) ==
    Round1(Clip(AlertFloors(BaseScore(cat, prob) + HourlyFlavor(hs), al)))

\* the inputs
CatLabels == {NoneCat, "TSTM", "MRGL", "SLGT", "ENH", "MDT", "HIGH", "DAY1"}
PctValues == {-5, 0, 2, 10, 45, 100}
ThunderValues == {-1, 0, 3, 10, 11, 24}
PopValues == {-10, 0, 60, 100, 150}
GustValues == {-5, 0, 35, 36, 40, 65, 70}
ProbInputs == {<<>>} \cup {<<p>> : p \in PctValues}
AlertFlags == [has_watch : BOOLEAN, has_warning : BOOLEAN, has_pds : BOOLEAN]
Summaries == [thunder_hours : ThunderValues, max_pop : PopValues, max_gust_mph : GustValues]

ScoreIdle ==
    /\ spc_cat = NoneCat /\ spc_prob_tor = <<>>
    /\ alerts = [has_watch |-> FALSE, has_warning |-> FALSE, has_pds |-> FALSE]
    /\ hourly_summary = [thunder_hours |-> 0, max_pop |-> 0, max_gust_mph |-> 0]
    /\ score_pc = "idle" /\ score_0_100 = 0
HourlyIdle ==
    /\ periods_24h = <<>> /\ hourly_pc = "idle" /\ hourly_i = 0
    /\ thunder_hours = 0 /\ max_pop = 0 /\ max_gust_mph = 0
AlertsIdle ==
    /\ features = <<>> /\ alerts_pc = "idle" /\ alerts_i = 0
    /\ has_watch = FALSE /\ has_warning = FALSE /\ has_pds = FALSE
SpcIdle ==
    /\ feats = <<>> /\ spc_pc = "idle"
    /\ spc_cat_ret = [raised |-> FALSE, label |-> NoneCat]
    /\ spc_prob_ret = [raised |-> FALSE, pct |-> <<>>]

InitScore ==
    /\ spc_cat \in CatLabels
    /\ spc_prob_tor \in ProbInputs
    /\ alerts \in AlertFlags
    /\ hourly_summary \in Summaries
    /\ score_pc = "call" /\ score_0_100 = 0
    /\ HourlyIdle /\ AlertsIdle /\ SpcIdle

ScoreLikelihood ==
    /\ score_pc = "call"
    /\ score_0_100' = score_likelihood(spc_cat, spc_prob_tor, alerts, hourly_summary)
    /\ score_pc' = "done"
    /\ UNCHANGED <<spc_cat, spc_prob_tor, alerts, hourly_summary>>
    /\ UNCHANGED <<hourlyVars, alertVars, spcVars>>

NextScore == ScoreLikelihood
SpecScore == InitScore /\ [][NextScore]_vars

(***************************************************************************)
(* Step 2: summarize_hourly                                                *)
(*                                                                         *)
(* A period is a record: shortForecast and windGust are JSON values;       *)
(* pop_field says what the key probabilityOfPrecipitation holds ("absent", *)
(* "null" or "dict") and pop_value is the "value" of that dict.            *)
(***************************************************************************)
PopMin == 0
PopMax == 100

\* p.get("shortForecast", "") or ""
ShortForecastOf(p) == IF Falsy(p.shortForecast) THEN <<>> ELSE p.shortForecast.s

\* thunder_re.search(sf): (thunder|t-storm|storm), re.I
ThunderMatch(sf) ==
    \/ Contains(Lower(sf), <<"t", "h", "u", "n", "d", "e", "r">>)
    \/ Contains(Lower(sf), <<"t", "-", "s", "t", "o", "r", "m">>)
    \/ Contains(Lower(sf), <<"s", "t", "o", "r", "m">>)

\* safe_get(p, "probabilityOfPrecipitation", "value", default=0) or 0
PopRead(p) ==
    LET got == IF p.pop_field # "dict" \/ p.pop_value.t = "absent"
               THEN IntV(0) ELSE p.pop_value
    IN IF Falsy(got) THEN IntV(0) ELSE got

\* str.strip() as int() applies it
Strip(s) ==
    LET a == SpaceRunEnd(s, 1)
        b == CHOOSE k \in 0..Len(s) :
                 /\ \A j \in (k + 1)..Len(s) : IsSpace(s[j])
                 /\ (k = 0 \/ ~IsSpace(s[k]))
    IN SubSeq(s, a, b)

\* int(v): <<n>>, or <<>> when int() raises
ToInt(v) ==
    CASE v.t = "int" -> <<v.n>>
      [] v.t = "float" -> <<Trunc(v.n)>>
      [] v.t = "str" ->
           LET x == Strip(v.s)
               signed == x # <<>> /\ x[1] \in {"+", "-"}
               ds == IF signed THEN Tail(x) ELSE x
           IN IF ds # <<>> /\ \A k \in 1..Len(ds) : IsDigit(ds[k])
              THEN <<(IF signed /\ x[1] = "-" THEN -1 ELSE 1) * DigitsToInt(ds)>>
              ELSE <<>>
      [] OTHER -> <<>>

C10_Mutant_PopOf(p) ==
    LET r == ToInt(PopRead(p)) IN IF r = <<>> THEN 0 ELSE Max(PopMin, r[1])

\* try: max(0, min(100, int(pop))) except: 0
PopOf(p) ==
    LET r == ToInt(PopRead(p)) IN IF r = <<>> THEN 0 ELSE Max(PopMin, Min(PopMax, r[1]))

\* re.search(r"(\d+)", gust): int(m.group(1)), or <<>> for no match
FirstNumber(s) ==
    IF \E k \in 1..Len(s) : IsDigit(s[k])
    THEN LET a == CHOOSE k \in 1..Len(s) :
                      IsDigit(s[k]) /\ \A j \in 1..(k - 1) : ~IsDigit(s[j])
         IN <<DigitsToInt(SubSeq(s, a, DigitRunEnd(s, a) - 1))>>
    ELSE <<>>

C6_Mutant_GustOf(p) ==
    LET gust == p.windGust
    IN CASE gust.t = "str" -> 0
         [] gust.t \in {"int", "float"} -> ToInt(gust)[1]
         [] OTHER -> 0

\* int(gust_mph) of one period
GustOf(p) ==
    LET gust == p.windGust
    IN CASE gust.t = "str" -> IF FirstNumber(gust.s) # <<>> THEN FirstNumber(gust.s)[1] ELSE 0
         [] gust.t \in {"int", "float"} -> ToInt(gust)[1]
         [] OTHER -> 0

\* the hourly inputs: what each field may hold
ShortForecasts ==
    <<StrV(<<"T", "h", "u", "n", "d", "e", "r", "s", "t", "o", "r", "m", "s">>), StrV(<<"S", "u", "n", "n", "y">>), StrV(<<"C", "h", "a", "n", "c", "e", " ", "T", "-", "S", "t", "o", "r", "m", "s">>), Absent, Null,
      StrV(<<"S", "T", "O", "R", "M", "Y">>), StrV(<<"C", "l", "o", "u", "d", "y">>), StrV(<<>>), StrV(<<"S", "l", "i", "g", "h", "t", " ", "C", "h", "a", "n", "c", "e", " ", "T", "h", "u", "n", "d", "e", "r">>), StrV(<<"R", "a", "i", "n">>)>>
PopFields ==
    <<"dict", "dict", "dict", "absent", "null", "dict", "dict", "dict", "dict", "dict">>
PopValuesIn ==
    <<IntV(30), IntV(-20), IntV(250), Absent, Absent, Null, FloatV(457),
      StrV(<<" ", "8", "0">>), StrV(<<"n", "/", "a">>), Absent>>
WindGusts ==
    <<StrV(<<"5", "0", " ", "m", "p", "h">>), Absent, Null, IntV(40), StrV(<<"c", "a", "l", "m">>), IntV(-5), FloatV(427),
      StrV(<<"-", "7", " ", "m", "p", "h">>), FloatV(-55), StrV(<<"2", "5", " ", "t", "o", " ", "6", "0", " ", "m", "p", "h">>)>>
MaxPeriods == 3

PeriodKinds ==
    {[shortForecast |-> ShortForecasts[k], pop_field |-> PopFields[k],
      pop_value |-> PopValuesIn[k], windGust |-> WindGusts[k]] : k \in 1..Len(ShortForecasts)}
SeqsUpTo(S, n) == UNION {[1..m -> S] : m \in 0..n}

InitHourly ==
    /\ periods_24h \in SeqsUpTo(PeriodKinds, MaxPeriods)
    /\ hourly_pc = "loop" /\ hourly_i = 0
    /\ thunder_hours = 0 /\ max_pop = 0 /\ max_gust_mph = 0
    /\ ScoreIdle /\ AlertsIdle /\ SpcIdle

\* one turn of `for p in periods_24h`
SummarizeStep ==
    /\ hourly_pc = "loop"
    /\ hourly_i < Len(periods_24h)
    /\ LET p == periods_24h[hourly_i + 1]
       IN /\ thunder_hours' = IF ThunderMatch(ShortForecastOf(p))
                              THEN thunder_hours + 1 ELSE thunder_hours
          /\ max_pop' = Max(max_pop, PopOf(p))
          /\ max_gust_mph' = Max(max_gust_mph, GustOf(p))
    /\ hourly_i' = hourly_i + 1
    /\ UNCHANGED <<periods_24h, hourly_pc>>
    /\ UNCHANGED <<scoreVars, alertVars, spcVars>>

\* the loop ends; the three values are returned
SummarizeReturn ==
    /\ hourly_pc = "loop"
    /\ hourly_i = Len(periods_24h)
    /\ hourly_pc' = "done"
    /\ UNCHANGED <<periods_24h, hourly_i, thunder_hours, max_pop, max_gust_mph>>
    /\ UNCHANGED <<scoreVars, alertVars, spcVars>>

NextHourly == SummarizeStep \/ SummarizeReturn
SpecHourly == InitHourly /\ [][NextHourly]_vars

(***************************************************************************)
(* Step 3: classify_tornado_alerts                                         *)
(*                                                                         *)
(* A feature is a record: kind is "dict" or, for a list entry that is no   *)
(* dict, "null"; props says what the key properties holds ("absent",       *)
(* "null" or "dict"); event, headline and description are the JSON values  *)
(* of that dict.                                                           *)
(***************************************************************************)
\* str(v) as an f-string formats it
ToText(v) ==
    CASE v.t = "str" -> v.s
      [] v.t = "int" /\ v.n >= 0 -> NatToStr(v.n)
      [] v.t = "int" /\ v.n < 0 -> <<"-">> \o NatToStr(-v.n)
      [] v.t = "float" /\ v.n >= 0 -> NatToStr(v.n \div 10) \o <<".">> \o NatToStr(v.n % 10)
      [] v.t = "float" /\ v.n < 0 ->
           <<"-">> \o NatToStr((-v.n) \div 10) \o <<".">> \o NatToStr((-v.n) % 10)
      [] OTHER -> <<"N", "o", "n", "e">>

\* safe_get(f, "properties", key, default="") or "", then formatted
AlertField(f, key) ==
    LET got == IF f.kind # "dict" \/ f.props # "dict" THEN StrV(<<>>) ELSE f[key]
    IN IF Falsy(got) THEN <<>> ELSE ToText(got)

\* f"{event} {headline} {desc}".lower()
AlertText(f) ==
    Lower(AlertField(f, "event") \o <<" ">> \o AlertField(f, "headline")
            \o <<" ">> \o AlertField(f, "description"))

C5_Mutant_ClassifyOne(flags, f) ==
    LET txt == AlertText(f)
    IN [has_warning |-> Contains(txt, <<"t", "o", "r", "n", "a", "d", "o", " ", "w", "a", "r", "n", "i", "n", "g">>),
        has_watch |-> Contains(txt, <<"t", "o", "r", "n", "a", "d", "o", " ", "w", "a", "t", "c", "h">>),
        has_pds |-> Contains(txt, <<"p", "a", "r", "t", "i", "c", "u", "l", "a", "r", "l", "y", " ", "d", "a", "n", "g", "e", "r", "o", "u", "s", " ", "s", "i", "t", "u", "a", "t", "i", "o", "n">>) \/ Contains(txt, <<"p", "d", "s">>)]

\* the body of `for f in features`: the flags after f
ClassifyOne(flags, f) ==
    LET txt == AlertText(f)
    IN [has_warning |-> IF Contains(txt, <<"t", "o", "r", "n", "a", "d", "o", " ", "w", "a", "r", "n", "i", "n", "g">>)
                        THEN TRUE ELSE flags.has_warning,
        has_watch |-> IF Contains(txt, <<"t", "o", "r", "n", "a", "d", "o", " ", "w", "a", "t", "c", "h">>)
                      THEN TRUE ELSE flags.has_watch,
        has_pds |-> IF Contains(txt, <<"p", "a", "r", "t", "i", "c", "u", "l", "a", "r", "l", "y", " ", "d", "a", "n", "g", "e", "r", "o", "u", "s", " ", "s", "i", "t", "u", "a", "t", "i", "o", "n">>) \/ Contains(txt, <<"p", "d", "s">>)
                    THEN TRUE ELSE flags.has_pds]

\* the alert inputs
AlertKind == <<"dict", "dict", "dict", "dict", "dict", "dict", "null", "dict", "dict", "dict">>
AlertProps == <<"dict", "dict", "dict", "dict", "dict", "dict", "absent", "null", "absent", "dict">>
AlertEvents ==
    <<StrV(<<"T", "o", "r", "n", "a", "d", "o", " ", "W", "a", "r", "n", "i", "n", "g">>), StrV(<<"T", "o", "r", "n", "a", "d", "o", " ", "W", "a", "t", "c", "h">>), StrV(<<"T", "o", "r", "n", "a", "d", "o">>), Absent,
      StrV(<<"F", "l", "o", "o", "d", " ", "A", "d", "v", "i", "s", "o", "r", "y">>), IntV(5), Absent, Absent, Absent, StrV(<<"S", "e", "v", "e", "r", "e", " ", "T", "h", "u", "n", "d", "e", "r", "s", "t", "o", "r", "m", " ", "W", "a", "t", "c", "h">>)>>
AlertHeadlines ==
    <<Absent, StrV(<<"P", "D", "S", " ", "T", "o", "r", "n", "a", "d", "o", " ", "W", "a", "t", "c", "h">>), StrV(<<"W", "a", "r", "n", "i", "n", "g">>), Absent,
      Null, StrV(<<"u", "p", "d", "s">>), Absent, Absent, Absent, StrV(<<>>)>>
AlertDescriptions ==
    <<Null, StrV(<<>>), StrV(<<>>), StrV(<<".", ".", ".", "T", "o", "r", "n", "a", "d", "o", " ", "W", "a", "r", "n", "i", "n", "g", " ", "i", "s", "s", "u", "e", "d", ".", ".", ".">>),
      StrV(<<"P", "a", "r", "t", "i", "c", "u", "l", "a", "r", "l", "y", " ", "D", "a", "n", "g", "e", "r", "o", "u", "s", " ", "S", "i", "t", "u", "a", "t", "i", "o", "n">>), Absent, Absent, Absent, Absent, StrV(<<"n", "o", " ", "t", "o", "r", "n", "a", "d", "o">>)>>
MaxFeatures == 3

FeatureKinds ==
    {[kind |-> AlertKind[k], props |-> AlertProps[k], event |-> AlertEvents[k],
      headline |-> AlertHeadlines[k], description |-> AlertDescriptions[k]]
        : k \in 1..Len(AlertKind)}

InitAlerts ==
    /\ features \in SeqsUpTo(FeatureKinds, MaxFeatures)
    /\ alerts_pc = "loop" /\ alerts_i = 0
    /\ has_watch = FALSE /\ has_warning = FALSE /\ has_pds = FALSE
    /\ ScoreIdle /\ HourlyIdle /\ SpcIdle

\* one turn of `for f in features`
ClassifyStep ==
    /\ alerts_pc = "loop"
    /\ alerts_i < Len(features)
    /\ LET after == ClassifyOne([has_watch |-> has_watch, has_warning |-> has_warning,
                                 has_pds |-> has_pds], features[alerts_i + 1])
       IN /\ has_watch' = after.has_watch
          /\ has_warning' = after.has_warning
          /\ has_pds' = after.has_pds
    /\ alerts_i' = alerts_i + 1
    /\ UNCHANGED <<features, alerts_pc>>
    /\ UNCHANGED <<scoreVars, hourlyVars, spcVars>>

\* the loop ends; the three flags are returned
ClassifyReturn ==
    /\ alerts_pc = "loop"
    /\ alerts_i = Len(features)
    /\ alerts_pc' = "done"
    /\ UNCHANGED <<features, alerts_i, has_watch, has_warning, has_pds>>
    /\ UNCHANGED <<scoreVars, hourlyVars, spcVars>>

NextAlerts == ClassifyStep \/ ClassifyReturn
SpecAlerts == InitAlerts /\ [][NextAlerts]_vars

(***************************************************************************)
(* Step 4: get_spc_categorical and get_spc_prob_tornado                    *)
(*                                                                         *)
(* feats is the "features" list of the query's answer.  A polygon is a     *)
(* record: props says what its key properties holds ("absent", "null" or   *)
(* "dict") and attrs is that dict, its items in stored order.              *)
(***************************************************************************)
\* d.get(key): None for a missing key
DictGet(attrs, key) ==
    IF \E k \in 1..Len(attrs) : attrs[k].k = key
    THEN attrs[CHOOSE k \in 1..Len(attrs) : attrs[k].k = key].v
    ELSE Null

\* a or b or ... or "": the first truthy value
FirstTruthy(vals) ==
    IF \E k \in 1..Len(vals) : ~Falsy(vals[k])
    THEN vals[CHOOSE k \in 1..Len(vals) : ~Falsy(vals[k]) /\ \A j \in 1..(k - 1) : Falsy(vals[j])]
    ELSE StrV(<<>>)

C7_Mutant_CategoricalLabel(attrs) ==
    FirstTruthy(<<DictGet(attrs, "LABEL"), DictGet(attrs, "label"),
                  DictGet(attrs, "LABEL2"), DictGet(attrs, "Type")>>)

\* props.get("LABEL") or props.get("LABEL2") or props.get("Type") or props.get("label") or ""
CategoricalLabel(attrs) ==
    FirstTruthy(<<DictGet(attrs, "LABEL"), DictGet(attrs, "LABEL2"),
                  DictGet(attrs, "Type"), DictGet(attrs, "label")>>)

\* label.upper().replace(" ", "")
NormalizeLabel(text) == RemoveChar(Upper(text), " ")

\* "TSTM" first, then the loop over MRGL, SLGT, ENH, MDT, HIGH
Vocabulary == <<<<"T", "S", "T", "M">>, <<"M", "R", "G", "L">>, <<"S", "L", "G", "T">>, <<"E", "N", "H">>, <<"M", "D", "T">>, <<"H", "I", "G", "H">>>>
VocabularyNames == <<"TSTM", "MRGL", "SLGT", "ENH", "MDT", "HIGH">>
MatchVocabulary(label) ==
    IF \E k \in 1..Len(Vocabulary) : Contains(label, Vocabulary[k])
    THEN VocabularyNames[CHOOSE k \in 1..Len(Vocabulary) :
                            /\ Contains(label, Vocabulary[k])
                            /\ \A j \in 1..(k - 1) : ~Contains(label, Vocabulary[j])]
    ELSE NoneCat

Returned(x) == [raised |-> FALSE, label |-> x]
Raised == [raised |-> TRUE, label |-> NoneCat]

\* the function, after the query: Raised stands for the AttributeError of
\* None.get (properties is null) and of a label that is no text
get_spc_categorical(fs) ==
    IF fs = <<>> THEN Returned(NoneCat)
    ELSE IF fs[1].props = "null" THEN Raised
    ELSE LET label == CategoricalLabel(fs[1].attrs)
         IN IF label.t # "str" THEN Raised
            ELSE Returned(MatchVocabulary(NormalizeLabel(label.s)))

\* re.search(r"(\d+)\s*%", s): the leftmost place where digits, then any
\* white space, then "%" match; <<int(m.group(1))>>, or <<>> for no match
PctMatchAt(s, k) ==
    /\ IsDigit(s[k])
    /\ LET w == SpaceRunEnd(s, DigitRunEnd(s, k)) IN w <= Len(s) /\ s[w] = "%"
PctSearch(s) ==
    IF \E k \in 1..Len(s) : PctMatchAt(s, k)
    THEN LET a == CHOOSE k \in 1..Len(s) :
                      PctMatchAt(s, k) /\ \A j \in 1..(k - 1) : ~PctMatchAt(s, j)
         IN <<DigitsToInt(SubSeq(s, a, DigitRunEnd(s, a) - 1))>>
    ELSE <<>>

C8_Mutant_ProbLabel(attrs) == StrV(<<>>)

\* props.get("LABEL") or props.get("label") or ""
ProbLabel(attrs) == FirstTruthy(<<DictGet(attrs, "LABEL"), DictGet(attrs, "label")>>)

\* for v in props.values(): the first match of the pattern in str(v)
ScanValues(attrs) ==
    IF \E k \in 1..Len(attrs) : PctSearch(ToText(attrs[k].v)) # <<>>
    THEN PctSearch(ToText(attrs[CHOOSE k \in 1..Len(attrs) :
                                   /\ PctSearch(ToText(attrs[k].v)) # <<>>
                                   /\ \A j \in 1..(k - 1) :
                                         PctSearch(ToText(attrs[j].v)) = <<>>].v))
    ELSE <<>>

\* the function, after the query: raised stands for the AttributeError of
\* None.get (properties is null)
get_spc_prob_tornado(fs) ==
    IF fs = <<>> THEN [raised |-> FALSE, pct |-> <<>>]
    ELSE IF fs[1].props = "null" THEN [raised |-> TRUE, pct |-> <<>>]
    ELSE LET m == PctSearch(ToText(ProbLabel(fs[1].attrs)))
         IN [raised |-> FALSE, pct |-> IF m # <<>> THEN m ELSE ScanValues(fs[1].attrs)]

\* the polygons a query may answer with
Polygons ==
    <<[props |-> "dict", attrs |->
        <<[k |-> "LABEL", v |-> StrV(<<"E", "n", "h", "a", "n", "c", "e", "d", " ", "R", "i", "s", "k", " ", "(", "E", "N", "H", ")">>)]>>],
      [props |-> "dict", attrs |->
        <<[k |-> "LABEL", v |-> StrV(<<>>)],
          [k |-> "LABEL2", v |-> Null],
          [k |-> "Type", v |-> StrV(<<"m", "d", "t">>)],
          [k |-> "label", v |-> StrV(<<"H", "I", "G", "H">>)]>>],
      [props |-> "dict", attrs |->
        <<[k |-> "label", v |-> StrV(<<"s", "l", " ", "g", "t">>)],
          [k |-> "dn", v |-> IntV(4)]>>],
      [props |-> "dict", attrs |->
        <<[k |-> "LABEL", v |-> StrV(<<"S", "L", "\t", "G", "T">>)]>>],
      [props |-> "dict", attrs |->
        <<[k |-> "LABEL2", v |-> StrV(<<"H", "i", "g", "h", "/", "M", "r", "g", "l">>)]>>],
      [props |-> "dict", attrs |->
        <<[k |-> "Type", v |-> StrV(<<"T", "h", "u", "n", "d", "e", "r", " ", "(", "T", "S", "T", "M", ")", " ", "M", "R", "G", "L">>)]>>],
      [props |-> "absent", attrs |->
        <<>>],
      [props |-> "null", attrs |->
        <<>>],
      [props |-> "dict", attrs |->
        <<[k |-> "LABEL", v |-> IntV(5)]>>],
      [props |-> "dict", attrs |->
        <<[k |-> "dn", v |-> IntV(3)],
          [k |-> "LABEL", v |-> StrV(<<"N", "o", " ", "R", "i", "s", "k">>)]>>],
      [props |-> "dict", attrs |->
        <<[k |-> "LABEL", v |-> StrV(<<"5", "%">>)]>>],
      [props |-> "dict", attrs |->
        <<[k |-> "LABEL", v |-> StrV(<<"5", " ", "%">>)]>>],
      [props |-> "dict", attrs |->
        <<[k |-> "LABEL", v |-> StrV(<<"x">>)],
          [k |-> "dn", v |-> IntV(7)],
          [k |-> "txt", v |-> StrV(<<"1", "0", "%", " ", "t", "o", "r">>)],
          [k |-> "label", v |-> StrV(<<"2", "%">>)]>>],
      [props |-> "dict", attrs |->
        <<[k |-> "a", v |-> StrV(<<"1", "0", "%">>)],
          [k |-> "LABEL", v |-> StrV(<<>>)],
          [k |-> "label", v |-> StrV(<<"2", "%">>)]>>],
      [props |-> "dict", attrs |->
        <<[k |-> "idp", v |-> IntV(12)],
          [k |-> "valid", v |-> StrV(<<"1", "2", " ", "3", "4", "%">>)],
          [k |-> "LABEL", v |-> Null]>>],
      [props |-> "dict", attrs |->
        <<[k |-> "LABEL", v |-> StrV(<<"0", ".", "1", "5">>)],
          [k |-> "pct", v |-> StrV(<<"%">>)]>>]>>
MaxPolygons == 2
PolygonKinds == {Polygons[k] : k \in 1..Len(Polygons)}

InitCategorical ==
    /\ feats \in SeqsUpTo(PolygonKinds, MaxPolygons)
    /\ spc_pc = "categorical"
    /\ spc_cat_ret = [raised |-> FALSE, label |-> NoneCat]
    /\ spc_prob_ret = [raised |-> FALSE, pct |-> <<>>]
    /\ ScoreIdle /\ HourlyIdle /\ AlertsIdle

GetSpcCategorical ==
    /\ spc_pc = "categorical"
    /\ spc_cat_ret' = get_spc_categorical(feats)
    /\ spc_pc' = "done"
    /\ UNCHANGED <<feats, spc_prob_ret>>
    /\ UNCHANGED <<scoreVars, hourlyVars, alertVars>>

NextCategorical == GetSpcCategorical
SpecCategorical == InitCategorical /\ [][NextCategorical]_vars

InitProb ==
    /\ feats \in SeqsUpTo(PolygonKinds, MaxPolygons)
    /\ spc_pc = "prob_tornado"
    /\ spc_cat_ret = [raised |-> FALSE, label |-> NoneCat]
    /\ spc_prob_ret = [raised |-> FALSE, pct |-> <<>>]
    /\ ScoreIdle /\ HourlyIdle /\ AlertsIdle

GetSpcProbTornado ==
    /\ spc_pc = "prob_tornado"
    /\ spc_prob_ret' = get_spc_prob_tornado(feats)
    /\ spc_pc' = "done"
    /\ UNCHANGED <<feats, spc_cat_ret>>
    /\ UNCHANGED <<scoreVars, hourlyVars, alertVars>>

NextProb == GetSpcProbTornado
SpecProb == InitProb /\ [][NextProb]_vars

(***************************************************************************)
(* Claims about score_likelihood                                           *)
(***************************************************************************)
RawScore == BaseScore(spc_cat, spc_prob_tor) + HourlyFlavor(hourly_summary)
NoAlerts == [has_watch |-> FALSE, has_warning |-> FALSE, has_pds |-> FALSE]

\* C1: whatever the label (None and an unknown one included), the percentage
\* (or none), the flags and the three hourly integers, the score returned
\* lies in [0, 100].
C1_ScoreInRange ==
    score_pc = "done" => (0 <= score_0_100 /\ score_0_100 <= 100 * Point)

\* C1 happens: inputs whose raw sum is below zero were scored, to 0.
C1_Witness ==
    /\ score_pc = "done"
    /\ RawScore < 0
    /\ alerts = NoAlerts
    /\ score_0_100 = 0

\* C2: the flags are floors whatever the other inputs: watch gives >= 70,
\* warning >= 90, PDS >= 98, and they compose.
C2_AlertFloorsHold ==
    score_pc = "done" =>
        /\ (alerts.has_watch => score_0_100 >= 70 * Point)
        /\ (alerts.has_warning => score_0_100 >= 90 * Point)
        /\ (alerts.has_pds => score_0_100 >= 98 * Point)

\* C2 happens: PDS alone, with the lowest other inputs, was scored >= 98.
C2_Witness ==
    /\ score_pc = "done"
    /\ alerts = [has_watch |-> FALSE, has_warning |-> FALSE, has_pds |-> TRUE]
    /\ RawScore < 0
    /\ score_0_100 >= 98 * Point

\* the algorithm of the specification, step by step, in hundredths of a point
C3_RefWeights ==
    [c \in {"TSTM", "MRGL", "SLGT", "ENH", "MDT", "HIGH"} |->
        CASE c = "TSTM" -> 500 [] c = "MRGL" -> 1500 [] c = "SLGT" -> 2500
          [] c = "ENH" -> 4000 [] c = "MDT" -> 6000 [] c = "HIGH" -> 8000]
C3_Reference(cat, prob, al, hs) ==
    LET step1 == IF cat \in DOMAIN C3_RefWeights THEN C3_RefWeights[cat] ELSE 0
        step2 == IF Len(prob) = 1 THEN step1 + 120 * prob[1] ELSE step1
        capped == IF hs.thunder_hours < 10 THEN hs.thunder_hours ELSE 10
        step3 == step2 + 200 * capped
        over == hs.max_gust_mph - 35
        step4 == IF over > 0 THEN step3 + 100 * (IF over < 30 THEN over ELSE 30) ELSE step3
        step5 == step4 + 20 * hs.max_pop
        watch == IF al.has_watch /\ step5 < 7000 THEN 7000 ELSE step5
        warn == IF al.has_warning /\ watch < 9000 THEN 9000 ELSE watch
        pds == IF al.has_pds /\ warn < 9800 THEN 9800 ELSE warn
        clipped == IF pds < 0 THEN 0 ELSE IF pds > 10000 THEN 10000 ELSE pds
    IN 10 * ((clipped + 5) \div 10)
C3_Scenario == [thunder_hours |-> 3, max_pop |-> 60, max_gust_mph |-> 40]

\* C3: the score returned is the reference algorithm's (weight, 1.2 x pct,
\* 2 x capped thunder hours, capped gust bonus, 0.2 x PoP, floors, clip,
\* round); SLGT, 10%, 3 hours, gust 40, PoP 60 gives 60.0 and, with a
\* warning, 90.0.
C3_MatchesReference ==
    score_pc = "done" =>
        /\ score_0_100 = C3_Reference(spc_cat, spc_prob_tor, alerts, hourly_summary)
        /\ (spc_cat = "SLGT" /\ spc_prob_tor = <<10>> /\ hourly_summary = C3_Scenario
              => /\ alerts = NoAlerts => score_0_100 = 6000
                 /\ alerts = [NoAlerts EXCEPT !.has_warning = TRUE] => score_0_100 = 9000)

\* C3 happens: the scenario of the specification was scored, to 60.0.
C3_Witness ==
    /\ score_pc = "done"
    /\ spc_cat = "SLGT" /\ spc_prob_tor = <<10>> /\ hourly_summary = C3_Scenario
    /\ alerts = NoAlerts
    /\ score_0_100 = 6000

\* the severity order of the tiers
C4_Rank(cat) ==
    CASE cat = NoneCat -> 0 [] cat = "TSTM" -> 1 [] cat = "MRGL" -> 2 [] cat = "SLGT" -> 3
      [] cat = "ENH" -> 4 [] cat = "MDT" -> 5 [] cat = "HIGH" -> 6 [] OTHER -> -1

\* C4: raising the tier, the percentage, thunder_hours, max_pop or
\* max_gust_mph alone, the rest held fixed, never lowers the score.
C4_Monotone ==
    score_pc = "done" =>
        /\ \A c \in CatLabels :
              (C4_Rank(spc_cat) >= 0 /\ C4_Rank(c) >= C4_Rank(spc_cat))
                => score_likelihood(c, spc_prob_tor, alerts, hourly_summary) >= score_0_100
        /\ \A p \in PctValues :
              (spc_prob_tor # <<>> /\ p >= spc_prob_tor[1])
                => score_likelihood(spc_cat, <<p>>, alerts, hourly_summary) >= score_0_100
        /\ \A h \in ThunderValues :
              h >= hourly_summary.thunder_hours
                => score_likelihood(spc_cat, spc_prob_tor, alerts,
                                    [hourly_summary EXCEPT !.thunder_hours = h]) >= score_0_100
        /\ \A q \in PopValues :
              q >= hourly_summary.max_pop
                => score_likelihood(spc_cat, spc_prob_tor, alerts,
                                    [hourly_summary EXCEPT !.max_pop = q]) >= score_0_100
        /\ \A g \in GustValues :
              g >= hourly_summary.max_gust_mph
                => score_likelihood(spc_cat, spc_prob_tor, alerts,
                                    [hourly_summary EXCEPT !.max_gust_mph = g]) >= score_0_100

\* C4 happens: a scored input whose score a higher gust strictly raises.
C4_Witness ==
    /\ score_pc = "done"
    /\ hourly_summary.max_gust_mph = 36
    /\ \E g \in GustValues :
          /\ g > hourly_summary.max_gust_mph
          /\ score_likelihood(spc_cat, spc_prob_tor, alerts,
                              [hourly_summary EXCEPT !.max_gust_mph = g]) > score_0_100

(***************************************************************************)
(* Claims about summarize_hourly                                           *)
(***************************************************************************)
C6_MaxOf(S) == CHOOSE m \in S : \A x \in S : m >= x
C6_Seen(n) == 1..n

\* the period's shortForecast mentions thunder, t-storm or storm, in any case
C6_Mentions(p) ==
    /\ p.shortForecast.t = "str"
    /\ \E w \in {<<"t", "h", "u", "n", "d", "e", "r">>, <<"t", "-", "s", "t", "o", "r", "m">>, <<"s", "t", "o", "r", "m">>} :
          \E k \in 0..(Len(p.shortForecast.s) - Len(w)) :
              \A j \in 1..Len(w) : LowerChar(p.shortForecast.s[k + j]) = w[j]

\* the period's probability as an integer in [0, 100]; 0 when it is absent,
\* null or not a number
C6_Pop(p) ==
    LET v == IF p.pop_field = "dict" THEN p.pop_value ELSE Null
        r == ToInt(v)
    IN IF r = <<>> THEN 0 ELSE IF r[1] < 0 THEN 0 ELSE IF r[1] > 100 THEN 100 ELSE r[1]

\* the period's gust magnitude: the first embedded integer of a text, the
\* truncated value of a number, 0 when absent
C6_Gust(p) ==
    LET g == p.windGust
    IN IF g.t = "str" THEN (IF FirstNumber(g.s) = <<>> THEN 0 ELSE FirstNumber(g.s)[1])
       ELSE IF g.t = "int" THEN g.n
       ELSE IF g.t = "float" THEN Trunc(g.n)
       ELSE 0

\* C6 as stated: thunder_hours counts the matching periods (uncapped),
\* max_pop is the maximum clamped probability and max_gust_mph is the maximum
\* over the periods of the gust magnitude; the empty sequence gives {0, 0, 0}.
C6_AsStated ==
    hourly_pc = "done" =>
        LET n == Len(periods_24h)
        IN /\ thunder_hours = Cardinality({k \in C6_Seen(n) : C6_Mentions(periods_24h[k])})
           /\ max_pop = IF n = 0 THEN 0 ELSE C6_MaxOf({C6_Pop(periods_24h[k]) : k \in C6_Seen(n)})
           /\ max_gust_mph =
                 IF n = 0 THEN 0 ELSE C6_MaxOf({C6_Gust(periods_24h[k]) : k \in C6_Seen(n)})

\* C6, amended: as stated, but max_gust_mph is the maximum of 0 and the gust
\* magnitudes of the periods: a negative numeric gust never shows.
C6_Amended ==
    hourly_pc = "done" =>
        LET n == Len(periods_24h)
        IN /\ thunder_hours = Cardinality({k \in C6_Seen(n) : C6_Mentions(periods_24h[k])})
           /\ max_pop = C6_MaxOf({0} \cup {C6_Pop(periods_24h[k]) : k \in C6_Seen(n)})
           /\ max_gust_mph = C6_MaxOf({0} \cup {C6_Gust(periods_24h[k]) : k \in C6_Seen(n)})

\* C6 happens: three periods were summarized, each mentioning a storm, one
\* with a text gust of 50 mph, one with a probability over 100.
C6_Witness ==
    /\ hourly_pc = "done"
    /\ Len(periods_24h) = 3
    /\ thunder_hours = 3
    /\ max_gust_mph = 50
    /\ \E k \in 1..3 : periods_24h[k].pop_value = IntV(250)
    /\ max_pop = 100

\* C10: after any prefix of the periods, 0 <= thunder_hours <= the number
\* of periods processed, 0 <= max_pop <= 100 and max_gust_mph >= 0, and no
\* running value decreases from one period to the next.
C10_RunningSummary ==
    /\ [](hourly_pc \in {"loop", "done"} =>
            /\ 0 <= thunder_hours /\ thunder_hours <= hourly_i
            /\ 0 <= max_pop /\ max_pop <= 100
            /\ 0 <= max_gust_mph)
    /\ [][hourly_pc = "loop" =>
            /\ thunder_hours' >= thunder_hours
            /\ max_pop' >= max_pop
            /\ max_gust_mph' >= max_gust_mph]_vars

\* C10 happens: two periods in, a probability over 100 and a negative gust
\* processed, the running maxima at 100 and 0.
C10_Witness ==
    /\ hourly_pc = "loop"
    /\ hourly_i = 2
    /\ periods_24h[1].pop_value = IntV(250)
    /\ periods_24h[2].windGust = IntV(-5)
    /\ max_pop = 100
    /\ max_gust_mph = 0

(***************************************************************************)
(* Claims about classify_tornado_alerts                                    *)
(***************************************************************************)
\* the text of a field of a record: empty when the record, its properties
\* or the field is missing, null or empty
C5_Field(f, key) ==
    IF f.kind = "dict" /\ f.props = "dict" /\ ~Falsy(f[key]) THEN ToText(f[key]) ELSE <<>>
\* the record's lowercased event + headline + description text
C5_Text(f) ==
    LET joined == C5_Field(f, "event") \o <<" ">> \o C5_Field(f, "headline")
                    \o <<" ">> \o C5_Field(f, "description")
    IN [k \in 1..Len(joined) |-> LowerChar(joined[k])]
C5_Has(f, phrase) ==
    \E k \in 0..(Len(C5_Text(f)) - Len(phrase)) :
        SubSeq(C5_Text(f), k + 1, k + Len(phrase)) = phrase

\* C5: the flags are ORs over the records: a flag that is true is never
\* reset by a later record, and after any number of records (all of them at
\* the return) a flag is true exactly when one of the records read has the
\* phrase in its text; so the order does not matter and no record gives
\* all-false.
C5_OrAccumulation ==
    /\ [](alerts_pc \in {"loop", "done"} =>
            /\ has_warning = \E k \in 1..alerts_i : C5_Has(features[k], <<"t", "o", "r", "n", "a", "d", "o", " ", "w", "a", "r", "n", "i", "n", "g">>)
            /\ has_watch = \E k \in 1..alerts_i : C5_Has(features[k], <<"t", "o", "r", "n", "a", "d", "o", " ", "w", "a", "t", "c", "h">>)
            /\ has_pds = \E k \in 1..alerts_i :
                            \/ C5_Has(features[k], <<"p", "a", "r", "t", "i", "c", "u", "l", "a", "r", "l", "y", " ", "d", "a", "n", "g", "e", "r", "o", "u", "s", " ", "s", "i", "t", "u", "a", "t", "i", "o", "n">>)
                            \/ C5_Has(features[k], <<"p", "d", "s">>))
    /\ [](alerts_pc = "done" => alerts_i = Len(features))
    /\ [][/\ has_warning => has_warning'
          /\ has_watch => has_watch'
          /\ has_pds => has_pds']_vars

\* C5 happens: a warning record was followed by records without the phrase,
\* and the warning flag is still up at the return.
C5_Witness ==
    /\ alerts_pc = "done"
    /\ Len(features) = 3
    /\ C5_Has(features[1], <<"t", "o", "r", "n", "a", "d", "o", " ", "w", "a", "r", "n", "i", "n", "g">>)
    /\ ~C5_Has(features[2], <<"t", "o", "r", "n", "a", "d", "o", " ", "w", "a", "r", "n", "i", "n", "g">>)
    /\ ~C5_Has(features[3], <<"t", "o", "r", "n", "a", "d", "o", " ", "w", "a", "r", "n", "i", "n", "g">>)
    /\ has_warning /\ ~has_watch /\ ~has_pds

(***************************************************************************)
(* Claims about the outlook resolvers                                      *)
(***************************************************************************)
C7_Keys == <<"LABEL", "LABEL2", "Type", "label">>
C7_Value(poly, key) ==
    IF \E k \in 1..Len(poly.attrs) : poly.attrs[k].k = key
    THEN (CHOOSE a \in {poly.attrs[k] : k \in 1..Len(poly.attrs)} : a.k = key).v
    ELSE Absent
\* the polygon has its attribute map, or none at all, and its label
\* attributes are text, null or missing
C7_InScope(poly) ==
    /\ poly.props # "null"
    /\ \A k \in 1..4 : C7_Value(poly, C7_Keys[k]).t \in {"str", "null", "absent"}
\* the first non-empty of LABEL, LABEL2, Type, label; empty when there is none
C7_Label(poly) ==
    LET full == {k \in 1..4 : C7_Value(poly, C7_Keys[k]).t = "str"
                                /\ C7_Value(poly, C7_Keys[k]).s # <<>>}
    IN IF full = {} THEN <<>>
       ELSE C7_Value(poly, C7_Keys[CHOOSE k \in full : \A j \in full : k <= j]).s
\* uppercased, the characters of `blanks` removed
C7_Normalized(text, blanks) ==
    LET up == [k \in 1..Len(text) |-> UpperChar(text[k])]
    IN SelectSeq(up, LAMBDA c : c \notin blanks)
C7_Inside(text, word) ==
    \E k \in 0..(Len(text) - Len(word)) : SubSeq(text, k + 1, k + Len(word)) = word
\* the first entry of TSTM, MRGL, SLGT, ENH, MDT, HIGH inside the text
C7_Resolved(text) ==
    LET hits == {k \in 1..6 : C7_Inside(text, Vocabulary[k])}
    IN IF hits = {} THEN NoneCat
       ELSE VocabularyNames[CHOOSE k \in hits : \A j \in hits : k <= j]
C7_Holds(blanks) ==
    spc_pc = "done" =>
        /\ feats = <<>> => spc_cat_ret = [raised |-> FALSE, label |-> NoneCat]
        /\ (feats # <<>> /\ C7_InScope(feats[1])) =>
              spc_cat_ret = [raised |-> FALSE,
                             label |-> C7_Resolved(C7_Normalized(C7_Label(feats[1]), blanks))]

\* C7 as stated: none for no polygon; otherwise the first polygon's label
\* (first non-empty of LABEL, LABEL2, Type, label), uppercased and with its
\* white space removed, resolves to the first vocabulary entry it contains,
\* or none.
C7_AsStated == C7_Holds(Whitespace)

\* C7, amended: as stated, but only the space character is removed from the
\* label; a tab or a line break inside it stays and can hide an entry.
C7_Amended == C7_Holds({" "})

\* C7 happens: two polygons answered; the first one's label holds HIGH and
\* MRGL, and MRGL, the earlier entry, is returned.
C7_Witness ==
    /\ spc_pc = "done"
    /\ Len(feats) = 2
    /\ C7_Inside(C7_Normalized(C7_Label(feats[1]), {" "}), Vocabulary[6])
    /\ C7_Inside(C7_Normalized(C7_Label(feats[1]), {" "}), Vocabulary[2])
    /\ C7_Label(feats[2]) # C7_Label(feats[1])
    /\ spc_cat_ret = [raised |-> FALSE, label |-> "MRGL"]

\* the first number of the text that "%" follows (with white space between
\* them when `gap` allows it): <<number>>, or <<>>
C8_FirstPct(text, gap) ==
    LET starts == {a \in 1..Len(text) :
                     /\ IsDigit(text[a])
                     /\ (a = 1 \/ ~IsDigit(text[a - 1]))
                     /\ LET e == DigitRunEnd(text, a)
                            w == IF gap THEN SpaceRunEnd(text, e) ELSE e
                        IN w <= Len(text) /\ text[w] = "%"}
    IN IF starts = {} THEN <<>>
       ELSE LET a == CHOOSE x \in starts : \A y \in starts : x <= y
            IN <<DigitsToInt(SubSeq(text, a, DigitRunEnd(text, a) - 1))>>
\* the label attribute of the probabilistic layer: LABEL, else label
C8_Label(poly) ==
    IF ~Falsy(C7_Value(poly, "LABEL")) THEN ToText(C7_Value(poly, "LABEL"))
    ELSE IF ~Falsy(C7_Value(poly, "label")) THEN ToText(C7_Value(poly, "label"))
    ELSE <<>>
C8_Expected(poly, gap) ==
    LET hits == {k \in 1..Len(poly.attrs) : C8_FirstPct(ToText(poly.attrs[k].v), gap) # <<>>}
    IN IF C8_FirstPct(C8_Label(poly), gap) # <<>> THEN C8_FirstPct(C8_Label(poly), gap)
       ELSE IF hits = {} THEN <<>>
       ELSE C8_FirstPct(ToText(poly.attrs[CHOOSE k \in hits : \A j \in hits : k <= j].v), gap)
C8_Holds(gap) ==
    spc_pc = "done" =>
        /\ feats = <<>> => spc_prob_ret = [raised |-> FALSE, pct |-> <<>>]
        /\ (feats # <<>> /\ feats[1].props # "null") =>
              spc_prob_ret = [raised |-> FALSE, pct |-> C8_Expected(feats[1], gap)]

\* C8 as stated: absent for no polygon; otherwise the first number
\* immediately followed by "%" in the first polygon's label, else the first
\* such number over its attribute values in stored order, else absent.
C8_AsStated == C8_Holds(FALSE)

\* C8, amended: as stated, but white space may stand between the number and
\* the "%": "5 %" resolves to 5.
C8_Amended == C8_Holds(TRUE)

\* C8 happens: the first polygon's label says 2% and an attribute stored
\* before it says 10%; the label's 2 is returned.
C8_Witness ==
    /\ spc_pc = "done"
    /\ feats # <<>>
    /\ feats[1].props = "dict"
    /\ C8_FirstPct(C8_Label(feats[1]), TRUE) = <<2>>
    /\ C8_FirstPct(ToText(feats[1].attrs[1].v), TRUE) = <<10>>
    /\ spc_prob_ret = [raised |-> FALSE, pct |-> <<2>>]

\* the first polygon's fields are text, null or missing: the malformed
\* shapes the claim lists
C9_Listed(poly) ==
    \A k \in 1..Len(poly.attrs) : poly.attrs[k].v.t \in {"str", "null"}

\* C9: the core functions never raise on missing, null or malformed
\* optional fields (here: get_spc_categorical on a first polygon whose
\* properties or label are missing or null); they return the defaults.
C9_NeverRaises ==
    (spc_pc = "done" /\ feats # <<>> /\ C9_Listed(feats[1])) => ~spc_cat_ret.raised

====
